---------------------------- MODULE Spec2Model ----------------------------
(***************************************************************************)
(* A model of the Santa tracker: the position/schedule resolver            *)
(* getSantaLocation, the delivered-count function calculateGifts and the   *)
(* message generator generateIntelMessage (services/trackingService, found *)
(* in src/components/Scene3D.tsx lines 175-414), and the App component     *)
(* that drives them from its timers (src/unnamed/part_002).                *)
(*                                                                         *)
(* Units.  A timestamp is a whole number of minutes since                  *)
(* 1970-01-01T00:00Z.  The resolver reads only the month, day, hour and    *)
(* minute of now + offset, and every offset is a multiple of 30 minutes,   *)
(* so the seconds and milliseconds of a timestamp never change a result.   *)
(* A station's offset is held in minutes (the source's hours times 60), a  *)
(* coordinate as the source's decimal degrees times 10000.                 *)
(***************************************************************************)
EXTENDS Integers, Sequences, FiniteSets, TLC

VARIABLES
    now,         \* the clock: the value new Date() gave the last call
    elapsed,     \* minutes the clock has advanced since the session began
    stations,    \* the station table the resolver reads
    callStatus,  \* "none" before the first call, then "returned" or "thrown"
    tracking,    \* what the last call of getSantaLocation returned
    probe,       \* input and output of a function applied on its own
    app          \* the state of the App component: its useState values, its
                 \* running intervals and what their callbacks closed over

vars == <<now, elapsed, stations, callStatus, tracking, probe, app>>

---------------------------------------------------------------------------
(* Bounds of the model *)

\* the longest session, in minutes (52 hours: longer than the 49-hour mission)
MaxSession == 3120

\* how far the clock may move between two calls, in minutes
Deltas == {1, 60, 1440}

\* the observer's own UTC offsets (what Date.getDate/getMonth apply), minutes
TimezoneOffsets == {-300, 0, 540}

\* the inputs the local-time label is applied to on its own: every hour, some
\* minutes, every whole and half hour offset from -12:00 to +14:00
LabelMinutes == {0, 1, 15, 30, 59}
LabelOffsets == {30 * n : n \in -24..28}

\* the longest table the sort is applied to on its own
MaxTableLen == 4

\* the most calls of calculateGifts in a row
MaxGiftCalls == 5

\* the most times the clock moves on in a session of the App, and the most
\* log entries generated in it
MaxAdvances == 2
MaxGenerated == 6

---------------------------------------------------------------------------
(* The JavaScript Date of a minute count (proleptic Gregorian, UTC) *)

\* days since 1970-01-01 of the civil date y-m-d (m is 1..12)
DaysFromCivil(y, m, d) ==
    LET yy  == IF m <= 2 THEN y - 1 ELSE y
        era == yy \div 400
        yoe == yy - era * 400
        mp  == IF m > 2 THEN m - 3 ELSE m + 9
        doy == (153 * mp + 2) \div 5 + d - 1
        doe == yoe * 365 + yoe \div 4 - yoe \div 100 + doy
    IN  era * 146097 + doe - 719468

\* the timestamp of y-m-d hh:mm UTC
UTC(y, m, d, hh, mm) == DaysFromCivil(y, m, d) * 1440 + hh * 60 + mm

\* month (1..12) and day of month of a day count
CivilFromDays(z0) ==
    LET z   == z0 + 719468
        era == z \div 146097
        doe == z - era * 146097
        yoe == (doe - doe \div 1460 + doe \div 36524 - doe \div 146096) \div 365
        doy == doe - (365 * yoe + yoe \div 4 - yoe \div 100)
        mp  == (5 * doy + 2) \div 153
    IN  [month |-> IF mp < 10 THEN mp + 3 ELSE mp - 9,
         date  |-> doy - (153 * mp + 2) \div 5 + 1]

\* getUTCMonth (0..11) and getUTCDate (1..31) of a timestamp
DateOf(t) ==
    LET c == CivilFromDays(t \div 1440)
    IN  [month |-> c.month - 1, date |-> c.date]

getUTCHours(t) == (t % 1440) \div 60
getUTCMinutes(t) == t % 60

\* JavaScript's % on integers: the remainder takes the sign of the dividend
JsRem(a, b) == IF a >= 0 THEN a % b ELSE 0 - ((0 - a) % b)

\* n.toString().padStart(2, '0')
PadStart2(n) == LET s == ToString(n) IN IF Len(s) < 2 THEN "0" \o s ELSE s

---------------------------------------------------------------------------
(* The station table *)

TRACKING_STATIONS == <<
    [name |-> "MIDWAY", offset |-> -660, region |-> "PACIFIC", coordinates |-> <<282072, -1773735>>],
    [name |-> "HONOLULU", offset |-> -600, region |-> "PACIFIC", coordinates |-> <<213069, -1578583>>],
    [name |-> "ANCHORAGE", offset |-> -540, region |-> "N. AMERICA", coordinates |-> <<612181, -1499003>>],
    [name |-> "LOS ANGELES", offset |-> -480, region |-> "N. AMERICA", coordinates |-> <<340522, -1182437>>],
    [name |-> "DENVER", offset |-> -420, region |-> "N. AMERICA", coordinates |-> <<397392, -1049903>>],
    [name |-> "CHICAGO", offset |-> -360, region |-> "N. AMERICA", coordinates |-> <<418781, -876298>>],
    [name |-> "NEW YORK", offset |-> -300, region |-> "N. AMERICA", coordinates |-> <<407128, -740060>>],
    [name |-> "CARACAS", offset |-> -240, region |-> "S. AMERICA", coordinates |-> <<104806, -669036>>],
    [name |-> "RIO DE JANEIRO", offset |-> -180, region |-> "S. AMERICA", coordinates |-> <<-229068, -431729>>],
    [name |-> "CAPE VERDE", offset |-> -60, region |-> "ATLANTIC", coordinates |-> <<149330, -235133>>],
    [name |-> "LONDON", offset |-> 0, region |-> "EUROPE", coordinates |-> <<515074, -1278>>],
    [name |-> "PARIS", offset |-> 60, region |-> "EUROPE", coordinates |-> <<488566, 23522>>],
    [name |-> "CAIRO", offset |-> 120, region |-> "AFRICA", coordinates |-> <<300444, 312357>>],
    [name |-> "MOSCOW", offset |-> 180, region |-> "RUSSIA", coordinates |-> <<557558, 376173>>],
    [name |-> "NAIROBI", offset |-> 180, region |-> "AFRICA", coordinates |-> <<-12864, 368172>>],
    [name |-> "DUBAI", offset |-> 240, region |-> "MIDDLE EAST", coordinates |-> <<252048, 552708>>],
    [name |-> "TEHRAN", offset |-> 210, region |-> "MIDDLE EAST", coordinates |-> <<356892, 513890>>],
    [name |-> "MUMBAI", offset |-> 330, region |-> "ASIA", coordinates |-> <<190760, 728777>>],
    [name |-> "NEW DELHI", offset |-> 330, region |-> "ASIA", coordinates |-> <<286139, 772090>>],
    [name |-> "DHAKA", offset |-> 360, region |-> "ASIA", coordinates |-> <<238103, 904125>>],
    [name |-> "BANGKOK", offset |-> 420, region |-> "ASIA", coordinates |-> <<137563, 1005018>>],
    [name |-> "JAKARTA", offset |-> 420, region |-> "ASIA", coordinates |-> <<-62088, 1068456>>],
    [name |-> "BEIJING", offset |-> 480, region |-> "ASIA", coordinates |-> <<399042, 1164074>>],
    [name |-> "TOKYO", offset |-> 540, region |-> "ASIA", coordinates |-> <<356762, 1396503>>],
    [name |-> "GUAM", offset |-> 600, region |-> "PACIFIC", coordinates |-> <<134443, 1447937>>],
    [name |-> "SYDNEY", offset |-> 660, region |-> "AUSTRALIA", coordinates |-> <<-338688, 1512093>>],
    [name |-> "KAMCHATKA", offset |-> 720, region |-> "RUSSIA", coordinates |-> <<561327, 1595314>>],
    [name |-> "AUCKLAND", offset |-> 780, region |-> "NEW ZEALAND", coordinates |-> <<-368509, 1747645>>],
    [name |-> "KIRITIMATI", offset |-> 840, region |-> "PACIFIC", coordinates |-> <<18709, -1574014>>] >>

NORTH_POLE_COORDS == <<900000, 0>>

\* the synthetic home-base location of the pre-mission and post-mission states
NorthPole ==
    [name |-> "NORTH POLE", region |-> "ARCTIC", offset |-> 0,
     coordinates |-> NORTH_POLE_COORDS]

---------------------------------------------------------------------------
(* getSantaLocation *)

\* a slip: x goes before the elements that compare equal to it, so stations
\* of one offset come out in the reverse of their table order
RECURSIVE InsertByOffset_BeforeEquals(_, _)
InsertByOffset_BeforeEquals(s, x) ==
    IF s = <<>> THEN <<x>>
    ELSE IF s[Len(s)].offset > x.offset THEN Append(s, x)
    ELSE Append(InsertByOffset_BeforeEquals(SubSeq(s, 1, Len(s) - 1), x),
                s[Len(s)])

\* a slip: the comparator turned round, a.offset - b.offset (west to east)
RECURSIVE InsertByOffset_Ascending(_, _)
InsertByOffset_Ascending(s, x) ==
    IF s = <<>> THEN <<x>>
    ELSE IF s[Len(s)].offset <= x.offset THEN Append(s, x)
    ELSE Append(InsertByOffset_Ascending(SubSeq(s, 1, Len(s) - 1), x),
                s[Len(s)])

\* one step of the stable sort: s is sorted, x goes after every element that
\* does not compare greater than it under (a, b) => b.offset - a.offset
RECURSIVE InsertByOffset(_, _)
InsertByOffset(s, x) ==
    IF s = <<>> THEN <<x>>
    ELSE IF s[Len(s)].offset >= x.offset THEN Append(s, x)
    ELSE Append(InsertByOffset(SubSeq(s, 1, Len(s) - 1), x), s[Len(s)])

RECURSIVE SortEastToWest(_)
SortEastToWest(table) ==
    IF table = <<>> THEN <<>>
    ELSE InsertByOffset(SortEastToWest(SubSeq(table, 1, Len(table) - 1)),
                        table[Len(table)])

\* the sorted compiled-in table, evaluated once
SortedTrackingStations == SortEastToWest(TRACKING_STATIONS)

\* [...TRACKING_STATIONS].sort((a, b) => b.offset - a.offset)
stationsByTimezone(table) ==
    IF table = TRACKING_STATIONS THEN SortedTrackingStations
    ELSE SortEastToWest(table)

\* new Date(now.getTime() + station.offset * 60 * 60 * 1000)
localTime(t, station) == t + station.offset

\* a slip: the month test left out, so the 25th of any month counts
OnChristmasDay_AnyMonth(t, station) ==
    LET local == DateOf(localTime(t, station))
    IN  local.date = 25

\* localMonth === 11 && localDate === 25
OnChristmasDay(t, station) ==
    LET local == DateOf(localTime(t, station))
    IN  local.month = 11 /\ local.date = 25

\* a slip: the minute of grace left out
minutesUntilMidnight_NoGrace(t, station) ==
    (24 - getUTCHours(localTime(t, station))) * 60
        - getUTCMinutes(localTime(t, station))

\* (24 - localHours) * 60 - localMinutes + 1
minutesUntilMidnight(t, station) ==
    (24 - getUTCHours(localTime(t, station))) * 60
        - getUTCMinutes(localTime(t, station)) + 1

\* what smallestTimeToMidnight starts as (Infinity): above every value
Infinity == 2147483647

\* a slip: <= for <, so the last of several tied stations wins
RECURSIVE FindCurrent_LastTieWins(_, _, _, _, _)
FindCurrent_LastTieWins(sorted, t, i, currentStationIndex, smallestTimeToMidnight) ==
    IF i > Len(sorted) THEN currentStationIndex
    ELSE IF /\ OnChristmasDay(t, sorted[i])
            /\ minutesUntilMidnight(t, sorted[i]) <= smallestTimeToMidnight
         THEN FindCurrent_LastTieWins(sorted, t, i + 1, i - 1,
                                      minutesUntilMidnight(t, sorted[i]))
         ELSE FindCurrent_LastTieWins(sorted, t, i + 1, currentStationIndex,
                                      smallestTimeToMidnight)

\* the loop over the sorted stations from index i on (1-based here, so the
\* source's index is one less), carrying currentStationIndex and
\* smallestTimeToMidnight
RECURSIVE FindCurrent(_, _, _, _, _)
FindCurrent(sorted, t, i, currentStationIndex, smallestTimeToMidnight) ==
    IF i > Len(sorted) THEN currentStationIndex
    ELSE IF /\ OnChristmasDay(t, sorted[i])
            /\ minutesUntilMidnight(t, sorted[i]) < smallestTimeToMidnight
         THEN FindCurrent(sorted, t, i + 1, i - 1,
                          minutesUntilMidnight(t, sorted[i]))
         ELSE FindCurrent(sorted, t, i + 1, currentStationIndex,
                          smallestTimeToMidnight)

\* the source's currentStationIndex after the loop: -1, or a 0-based index
CurrentStationIndex(sorted, t) == FindCurrent(sorted, t, 1, -1, Infinity)

\* a slip: the day before the target day taken for the target day
christmasNotStarted_Before24th(sorted, t) ==
    LET local == DateOf(localTime(t, sorted[1]))
    IN  local.month = 11 /\ local.date < 24

\* firstStationLocalTime is in December, before the 25th (sorted is not empty)
christmasNotStarted(sorted, t) ==
    LET local == DateOf(localTime(t, sorted[1]))
    IN  local.month = 11 /\ local.date < 25

\* a slip: the loop starts at index 1, so the first station is left out
VisitedActive_SkipsFirst(sorted, currentStationIndex) ==
    <<NORTH_POLE_COORDS>>
        \o [i \in 1..currentStationIndex |-> sorted[i + 1].coordinates]

\* a slip: i < currentStationIndex, so the current station is left out
VisitedActive_ExcludesCurrent(sorted, currentStationIndex) ==
    <<NORTH_POLE_COORDS>>
        \o [i \in 1..currentStationIndex |-> sorted[i].coordinates]

\* active mission: North Pole, then the stations at the source's indices
\* 0..currentStationIndex
VisitedActive(sorted, currentStationIndex) ==
    <<NORTH_POLE_COORDS>>
        \o [i \in 1..(currentStationIndex + 1) |-> sorted[i].coordinates]

\* a slip: the closing North Pole left out
VisitedComplete_NoReturn(sorted) ==
    <<NORTH_POLE_COORDS>> \o [i \in 1..Len(sorted) |-> sorted[i].coordinates]

\* mission complete: North Pole, every station, North Pole
VisitedComplete(sorted) ==
    <<NORTH_POLE_COORDS>> \o [i \in 1..Len(sorted) |-> sorted[i].coordinates]
        \o <<NORTH_POLE_COORDS>>

\* (utcHours * 60) + utcMinutes + (currentStation.offset * 60)
totalMinutes(utcHours, utcMinutes, offset) ==
    utcHours * 60 + utcMinutes + offset

\* a slip: Math.floor((totalMinutes / 60) % 24) % 24, no + 24
localH_NoCorrection(total) == JsRem(JsRem(total, 1440) \div 60, 24)

\* Math.floor((totalMinutes / 60) % 24 + 24) % 24: the remainder of the real
\* quotient keeps the sign of totalMinutes, and its floor is the floor of
\* (totalMinutes rem 1440) / 60
localH(total) == ((JsRem(total, 1440) \div 60) + 24) % 24

\* Math.floor(totalMinutes % 60)
localM(total) == JsRem(total, 60)

\* `${localH...padStart(2, '0')}:${localM...padStart(2, '0')}`
localTimeString(total) ==
    PadStart2(localH(total)) \o ":" \o PadStart2(localM(total))

\* a slip: the return home left out
fullRoute_NoReturn(sorted) ==
    <<NORTH_POLE_COORDS>> \o [i \in 1..Len(sorted) |-> sorted[i].coordinates]

\* North Pole, every station in sorted order, North Pole again
fullRoute(sorted) ==
    Append(<<NORTH_POLE_COORDS>>
               \o [i \in 1..Len(sorted) |-> sorted[i].coordinates],
           NORTH_POLE_COORDS)

\* now.getDate() === 25 && now.getMonth() === 11, in the observer's own zone
isChristmasLocal(t, tzo) ==
    LET local == DateOf(t + tzo)
    IN  local.date = 25 /\ local.month = 11

\* currentStation and visited, by the three branches
Located(sorted, t) ==
    LET currentStationIndex == CurrentStationIndex(sorted, t) IN
    IF christmasNotStarted(sorted, t)
    THEN [currentStation |-> NorthPole, visited |-> <<NORTH_POLE_COORDS>>]
    ELSE IF currentStationIndex >= 0
    THEN [currentStation |-> sorted[currentStationIndex + 1],
          visited        |-> VisitedActive(sorted, currentStationIndex)]
    ELSE [currentStation |-> NorthPole, visited |-> VisitedComplete(sorted)]

\* everything getSantaLocation returns but the observer's own isChristmas
\* flag (set by WithObserver below); the table is not empty
Resolved(table, t) ==
    LET sorted == stationsByTimezone(table)
        at     == Located(sorted, t)
    IN  [location         |-> at.currentStation,
         localTime        |-> localTimeString(
                                  totalMinutes(getUTCHours(t), getUTCMinutes(t),
                                               at.currentStation.offset)),
         isChristmas      |-> FALSE,
         visitedLocations |-> at.visited,
         plannedRoute     |-> fullRoute(sorted)]

WithObserver(result, t, tzo) ==
    [result EXCEPT !.isChristmas = isChristmasLocal(t, tzo)]

\* the value getSantaLocation returns on table at time t, the observer's
\* zone being tzo
getSantaLocation(table, t, tzo) == WithObserver(Resolved(table, t), t, tzo)

\* reading firstStation.offset throws a TypeError when the table is empty
Throws(table) == Len(table) = 0

---------------------------------------------------------------------------
(* generateIntelMessage *)

\* the index (1-based) of the first occurrence of pattern in s, 0 when
\* there is none
IndexOf(s, pattern) ==
    LET at == {i \in 1..(Len(s) - Len(pattern) + 1) :
                  SubSeq(s, i, i + Len(pattern) - 1) = pattern}
    IN  IF at = {} THEN 0 ELSE CHOOSE i \in at : \A j \in at : i <= j

\* s.replace(pattern, by) with a string pattern: the first occurrence only
\* (by holds no $, so it is inserted as it is)
Replace(s, pattern, by) ==
    LET i == IndexOf(s, pattern)
    IN  IF i = 0 THEN s
        ELSE SubSeq(s, 1, i - 1) \o by
                 \o SubSeq(s, i + Len(pattern), Len(s))

\* the keys of REGION_LOGS and their messages
REGION_LOGS ==
    ("PACIFIC" :> <<"PACIFIC COMMAND: RADAR CONTACT CONFIRMED", "OCEANIC SENSORS DETECT SLEIGH WAKE", "US NAVY FLEET REPORTS VISUAL", "TROPICAL WEATHER SYSTEMS: CLEAR">>)
    @@ ("NEW ZEALAND" :> <<"KIWI SECTOR: AIRSPACE CLEAR", "SOUTHERN CROSS VISUAL CONFIRMED", "WELLINGTON CONTROL: GREETINGS">>)
    @@ ("AUSTRALIA" :> <<"RAAF INTERCEPTORS SCRAMBLED FOR ESCORT", "OUTBACK SENSORS ONLINE", "OPERATING IN SOUTHERN HEMISPHERE">>)
    @@ ("ASIA" :> <<"HIGH DENSITY POPULATION SECTOR", "MANEUVERING AROUND SKYSCRAPERS", "ORIENTAL AIR DEFENSE: FRIENDLY", "SPEED INCREASED FOR DENSITY">>)
    @@ ("RUSSIA" :> <<"ENTERING RUSSIAN FEDERATION AIRSPACE", "SIBERIAN THERMAL ANOMALY DETECTED", "COSMODROME TRACKING ACTIVE">>)
    @@ ("EUROPE" :> <<"NATO EYES ONLY: TARGET TRACKING ACTIVE", "ALPINE RADAR ECHOES", "EU AIR TRAFFIC CONTROL: PRIORITY CLEARANCE">>)
    @@ ("AFRICA" :> <<"SAHARA THERMAL PLUME STABLE", "EQUATORIAL CROSSING CONFIRMED", "CONTINENTAL SCANS: GREEN">>)
    @@ ("ATLANTIC" :> <<"MID-ATLANTIC RIDGE SENSORS ACTIVE", "CARRIER GROUP REPORTS FLYBY", "METEOROLOGICAL DATA: HEADWINDS">>)
    @@ ("N. AMERICA" :> <<"NORAD MAIN SENSORS: 100% CONFIDENCE", "EAST COAST DEFENSE GRID: GREEN", "CANADIAN NORAD REGION: CONTACT", "FIGHTER WING DEPLOYED AS HONOR GUARD">>)
    @@ ("S. AMERICA" :> <<"SOUTHERN CONE RADAR: ACTIVE", "AMAZON BASIN THERMAL SCAN: CLEAR">>)
    @@ ("MIDDLE EAST" :> <<"DESERT SENSORS ONLINE", "AIRSPACE CORRIDOR SECURED">>)
    @@ ("ARCTIC" :> <<"POLAR VORTEX NAVIGATION ENGAGED", "HOME BASE TELEMETRY LINKED", "AURORA BOREALIS INTERFERENCE: NEGLIGIBLE">>)

ACTION_LOGS ==
    << "TARGET LOCKED: %LOC%",
       "INITIATING DELIVERY SEQUENCE: %LOC%",
       "THERMAL SPIKE DETECTED OVER %LOC%",
       "DROPPING TO ROOFTOP ALTITUDE: %LOC%",
       "SONIC BOOM REPORTED NEAR %LOC%",
       "LOCAL AUTHORITIES IN %LOC% NOTIFIED",
       "HYPER-SPEED JUMP TO %LOC% COMPLETE",
       "MAGIC DUST LEVELS: NOMINAL",
       "TIME DILATION FIELD: ACTIVE",
       "CHIMNEY ENTRY PROTOCOL: INITIATED" >>

GENERIC_LOGS ==
    << "RADAR CONTACT: CONFIRMED // ID: RED SLED",
       "THERMAL SIGNATURE STABLE // EGT NORMAL",
       "AIRSPACE CLEARED FOR TRANSIT",
       "GROUND SENSORS DETECT HIGH VELOCITY OBJECT",
       "COMM CHATTER: 'MERRY CHRISTMAS' DETECTED",
       "REINDEER PROPULSION SYSTEMS NOMINAL",
       "CLOAKING DEVICE: DISENGAGED FOR LANDING",
       "INTERCEPT SQUADRON RTB // TARGET FRIENDLY",
       "ATMOSPHERIC ENTRY DETECTED // SHIELDS HOLDING",
       "TRAJECTORY ALIGNMENT: OPTIMAL",
       "VISIBILITY: UNLIMITED // CEILING: 50,000 FT" >>

\* the templates of the North Pole branch
templates ==
    << "MISSION STATUS: STANDBY / DEBRIEF",
       "ELVES LOADING FINAL PAYLOAD MANIFEST",
       "PRE-FLIGHT DIAGNOSTICS: ALL GREEN",
       "AWAITING LAUNCH WINDOW // UTC 10:00",
       "MAINTENANCE CREWS ATTENDING RED SLED",
       "REINDEER FEEDING IN PROGRESS" >>

\* a value of Math.random() is held in hundredths (0..99);
\* Math.floor(Math.random() * length) of such a draw
RandomIndex(draw, length) == (draw * length) \div 100

\* a slip: the name compared in another spelling
IsNorthPole_OtherSpelling(locationName) == locationName = "North Pole"

\* locationName === 'NORTH POLE'
IsNorthPole(locationName) == locationName = "NORTH POLE"

\* rand < 0.4
InActionBand(rand) == rand < 40

\* a slip: <= for <, so a draw of exactly 0.70 still gives region chatter
InRegionBand_Inclusive(rand) == rand <= 70

\* rand < 0.7
InRegionBand(rand) == rand < 70

\* rand < 0.85
InStatsBand(rand) == rand < 85

\* n as a string of at least width digits
Digits(n, width) ==
    LET str == ToString(n)
    IN  IF Len(str) >= width THEN str
        ELSE SubSeq("000", 1, width - Len(str)) \o str

\* speed.toFixed(2), speed in ten-thousandths and not half way between two
\* hundredths
SpeedToFixed2(speed) ==
    LET hundredths == (speed + 50) \div 100
    IN  ToString(hundredths \div 100) \o "." \o Digits(hundredths % 100, 2)

\* a count too large for a 32-bit integer is held as [hi, lo], standing for
\* hi * 10000000 + lo with lo in 0..9999999.
\* (delivered / 1000000000).toFixed(3), delivered not half way between two
\* millions
DeliveredToFixed3(delivered) ==
    LET millions == delivered.hi * 10 + (delivered.lo + 500000) \div 1000000
    IN  ToString(millions \div 1000) \o "." \o Digits(millions % 1000, 3)

\* the message returned when the first value of Math.random() is rand1 and
\* the second (drawn in every branch but the North Pole one) is rand2
generateIntelMessage(locationName, region, speed, delivered, rand1, rand2) ==
    IF IsNorthPole(locationName)
    THEN templates[RandomIndex(rand1, Len(templates)) + 1]
    ELSE IF InActionBand(rand1)
    THEN Replace(ACTION_LOGS[RandomIndex(rand2, Len(ACTION_LOGS)) + 1],
                 "%LOC%", locationName)
    ELSE IF InRegionBand(rand1) /\ region \in DOMAIN REGION_LOGS
    THEN REGION_LOGS[region][RandomIndex(rand2, Len(REGION_LOGS[region])) + 1]
    ELSE IF InStatsBand(rand1)
    THEN IF rand2 > 50
         THEN "CURRENT VELOCITY: MACH " \o SpeedToFixed2(speed)
                  \o " // HULL INTEGRITY 100%"
         ELSE "PAYLOAD UPDATE: " \o DeliveredToFixed3(delivered)
                  \o "B UNITS CONFIRMED"
    ELSE GENERIC_LOGS[RandomIndex(rand2, Len(GENERIC_LOGS)) + 1]

---------------------------------------------------------------------------
(* calculateGifts *)

\* A millisecond timestamp and a delivered count are too large for a 32-bit
\* integer: each is held as [hi, lo], standing for hi * 10000000 + lo with
\* lo in 0..9999999.  The clock reads a time at or after the epoch.

\* the 10000000 of now.getTime() % 10000000
GiftsCycle == 10000000

\* 4500000000
GiftsBase == [hi |-> 450, lo |-> 0]

\* a plus n, n a natural number below 2^31 - 10^7
BigPlus(a, n) ==
    [hi |-> a.hi + (a.lo + n) \div GiftsCycle, lo |-> (a.lo + n) % GiftsCycle]

\* a slip: a zero short, the remainder taken modulo 1000000
TimeInCycle_ZeroShort(ms) == ms.lo % 1000000

\* now.getTime() % 10000000
TimeInCycle(ms) == ms.lo

\* 4500000000 + (now.getTime() % 10000000) * 15
calculateGifts(ms) == BigPlus(GiftsBase, TimeInCycle(ms) * 15)

---------------------------------------------------------------------------
(* The App component *)

\* a slip: <= 12 for < 12, so the gate stays open through the hour of noon
\* on 26 December
isChristmas_ClosesLate(t) ==
    LET utcMonth == DateOf(t).month
        utcDate  == DateOf(t).date
        utcHours == getUTCHours(t)
    IN  \/ utcMonth = 11 /\ utcDate = 25
        \/ utcMonth = 11 /\ utcDate = 24 /\ utcHours >= 10
        \/ utcMonth = 11 /\ utcDate = 26 /\ utcHours <= 12

\* a slip: >= 9 for >= 10, so the gate opens an hour early
isChristmas_OpensEarly(t) ==
    LET utcMonth == DateOf(t).month
        utcDate  == DateOf(t).date
        utcHours == getUTCHours(t)
    IN  \/ utcMonth = 11 /\ utcDate = 25
        \/ utcMonth = 11 /\ utcDate = 24 /\ utcHours >= 9
        \/ utcMonth = 11 /\ utcDate = 26 /\ utcHours < 12

\* the gate isChristmas of a render whose currentTime is t
isChristmas(t) ==
    LET utcMonth == DateOf(t).month
        utcDate  == DateOf(t).date
        utcHours == getUTCHours(t)
    IN  \/ utcMonth = 11 /\ utcDate = 25
        \/ utcMonth = 11 /\ utcDate = 24 /\ utcHours >= 10
        \/ utcMonth = 11 /\ utcDate = 26 /\ utcHours < 12

\* the first value of santa (speed in ten-thousandths of Mach; altitude,
\* position, rotation and nextStop are read by nothing modelled here)
InitialSanta ==
    [speed            |-> 42000,
     giftsDelivered   |-> [hi |-> 450, lo |-> 0],
     locationName     |-> "NORTH POLE",
     currentRegion    |-> "ARCTIC",
     localTime        |-> "00:00",
     coordinates      |-> <<900000, 0>>,
     visitedLocations |-> <<>>]

\* no interval is running
NoInterval ==
    [running |-> FALSE, locationName |-> "", currentRegion |-> "",
     speed |-> 0, giftsDelivered |-> [hi |-> 0, lo |-> 0]]

\* the App constructed at time t, before its effects have run
AppBeforeMount(t) ==
    [mounted          |-> FALSE,
     currentTime      |-> t,
     santa            |-> InitialSanta,
     plannedRoute     |-> <<>>,
     logs             |-> <<>>,
     trackingInterval |-> FALSE,
     logInterval      |-> NoInterval,
     advances         |-> 0,
     generated        |-> 0]

\* the three entries set while the gate is false; an entry's timestamp is
\* held as the clock reading that toLocaleTimeString formats
ErrorLogs(t) ==
    << [id |-> "error-1", timestamp |-> t, priority |-> "HIGH",
        message |-> "SYSTEM ERROR: TRACKER OFFLINE - UNAUTHORIZED DATE"],
       [id |-> "error-2", timestamp |-> t, priority |-> "HIGH",
        message |-> "ACCESS DENIED: SANTA CLAUS TRACKER OPERATIONAL ONLY ON 25-DEC"],
       [id |-> "error-3", timestamp |-> t, priority |-> "HIGH",
        message |-> "SIGNAL LOST: NO SLEIGH DETECTED IN AIRSPACE"] >>

\* a slip: the slice(0, 5) left out
Prepend_NoSlice(entry, prev) == <<entry>> \o prev

\* [entry, ...prev].slice(0, 5)
Prepend(entry, prev) ==
    SubSeq(<<entry>> \o prev, 1,
           IF Len(prev) + 1 < 5 THEN Len(prev) + 1 ELSE 5)

\* addLog as closed over the santa of a render (of, with the fields
\* locationName, currentRegion, speed, giftsDelivered), called at time t;
\* the id is Date.now() followed by a random fraction, which the count of
\* entries generated so far stands for
addLog(a, of, t, rand1, rand2) ==
    [a EXCEPT
       !.logs = Prepend([id        |-> <<t, a.generated + 1>>,
                         timestamp |-> t,
                         priority  |-> "MED",
                         message   |-> generateIntelMessage(
                                           of.locationName, of.currentRegion,
                                           of.speed, of.giftsDelivered,
                                           rand1, rand2)],
                        a.logs),
       !.generated = a.generated + 1]

\* what the interval's addLog has closed over: the santa of the render
\* the effect ran in
Closure(santa) ==
    [running |-> TRUE, locationName |-> santa.locationName,
     currentRegion |-> santa.currentRegion, speed |-> santa.speed,
     giftsDelivered |-> santa.giftsDelivered]

\* a slip: the buffer is emptied before the first entry is generated
IntelEffect_ClearsFirst(a, t, rand1, rand2) ==
    IF ~isChristmas(a.currentTime)
    THEN [a EXCEPT !.logs = ErrorLogs(t), !.logInterval = NoInterval]
    ELSE [addLog([a EXCEPT !.logs = <<>>], a.santa, t, rand1, rand2) EXCEPT
            !.logInterval = Closure(a.santa)]

\* the body of the intel effect, run at time t in the render of state a
IntelEffect(a, t, rand1, rand2) ==
    IF ~isChristmas(a.currentTime)
    THEN [a EXCEPT !.logs = ErrorLogs(t), !.logInterval = NoInterval]
    ELSE [addLog(a, a.santa, t, rand1, rand2) EXCEPT
            !.logInterval = Closure(a.santa)]

\* a slip: the location and the region left out of the dependencies
IntelDeps_GateOnly(a) == <<isChristmas(a.currentTime)>>

\* the dependencies of the intel effect
IntelDeps(a) ==
    <<a.santa.locationName, a.santa.currentRegion, isChristmas(a.currentTime)>>

\* a slip: the tracking effect has no cleanup, so the interval set while
\* the gate was true keeps running
Rendered_NoCleanup(before, after, t, rand1, rand2) ==
    LET tracked == [after EXCEPT
                      !.trackingInterval =
                          \/ after.trackingInterval
                          \/ isChristmas(after.currentTime)]
    IN  IF IntelDeps(after) # IntelDeps(before)
        THEN IntelEffect(tracked, t, rand1, rand2)
        ELSE tracked

\* the render that follows a state change from before to after at time t,
\* and its effects: the tracking interval is cleared and set again by the
\* gate, the intel effect is cleaned up and run again when one of its
\* dependencies has changed
Rendered(before, after, t, rand1, rand2) ==
    LET tracked == [after EXCEPT
                      !.trackingInterval = isChristmas(after.currentTime)]
    IN  IF IntelDeps(after) # IntelDeps(before)
        THEN IntelEffect(tracked, t, rand1, rand2)
        ELSE tracked

\* new Date().getTime() of a clock reading in minutes, as [hi, lo]
MsOf(t) == [hi |-> (t * 6) \div 1000, lo |-> ((t * 6) % 1000) * 10000]

\* the santa that the tracking callback sets; draw is the value of
\* Math.random() in the speed, in hundredths
Tracked(prev, trackingData, t, draw) ==
    [prev EXCEPT
       !.locationName     = trackingData.location.name,
       !.currentRegion    = trackingData.location.region,
       !.localTime        = trackingData.localTime,
       !.coordinates      = trackingData.location.coordinates,
       !.visitedLocations = trackingData.visitedLocations,
       !.speed            = 42000 + (draw - 50) * 5,
       !.giftsDelivered   = calculateGifts(MsOf(t))]

---------------------------------------------------------------------------
(* The state machine: a session of resolver calls at increasing times *)

NoResult ==
    [location |-> NorthPole, localTime |-> "", isChristmas |-> FALSE,
     visitedLocations |-> <<>>, plannedRoute |-> <<>>]

NoProbe == [applied |-> FALSE, utcHours |-> 0, utcMinutes |-> 0,
            offset |-> 0, label |-> ""]

\* the moments a session starts at
StartTimes ==
    { UTC(2025, 11, 30, 9, 0),     \* the easternmost station enters December
      UTC(2025, 12, 24, 9, 0),     \* an hour before the mission
      UTC(2025, 12, 31, 9, 0) }    \* the easternmost station enters January

\* tables other than the compiled-in one: the single station of the spec's
\* scenario, and six stations of the compiled-in table in table order (a
\* tie, a fractional offset, less than a day between east and west)
SingleStation ==
    << [name |-> "LONDON", offset |-> 0, region |-> "EUROPE",
        coordinates |-> <<515000, -1300>>] >>

SixStations ==
    << TRACKING_STATIONS[7], TRACKING_STATIONS[11], TRACKING_STATIONS[14],
       TRACKING_STATIONS[15], TRACKING_STATIONS[17], TRACKING_STATIONS[24] >>

Tables == {TRACKING_STATIONS, SingleStation, SixStations}

InitSession(tables) ==
    /\ app = AppBeforeMount(0)
    /\ now \in StartTimes
    /\ elapsed = 0
    /\ stations \in tables
    /\ callStatus = "none"
    /\ tracking = NoResult
    /\ probe = NoProbe

\* the program: the compiled-in table
Init == InitSession({TRACKING_STATIONS})

\* the clock moves on by d minutes and getSantaLocation is called; the
\* result is the same for every observer but for its isChristmas flag
Call(d) ==
    /\ elapsed + d <= MaxSession
    /\ now' = now + d
    /\ elapsed' = elapsed + d
    /\ IF Throws(stations)
       THEN callStatus' = "thrown" /\ tracking' = NoResult
       ELSE /\ callStatus' = "returned"
            /\ \E result \in {Resolved(stations, now + d)} :
                 \E tzo \in TimezoneOffsets :
                    tracking' = WithObserver(result, now + d, tzo)
    /\ UNCHANGED <<stations, probe, app>>

Next == \E d \in Deltas : Call(d)

Spec == Init /\ [][Next]_vars

\* the resolver on each table of Tables
InitTables == InitSession(Tables)

SpecTables == InitTables /\ [][Next]_vars

\* moments far from December 2025: July of the year 1, the December before
\* the epoch (negative timestamps), the eve of a leap day four centuries
\* on, the last days of the year 5000
FarStartTimes ==
    { UTC(1, 7, 24, 9, 0),
      UTC(1969, 12, 24, 9, 0),
      UTC(2400, 2, 28, 9, 0),
      UTC(5000, 12, 30, 9, 0) }

\* the resolver on the compiled-in table, far in the past and in the future
InitFar ==
    /\ app = AppBeforeMount(0)
    /\ now \in FarStartTimes
    /\ elapsed = 0
    /\ stations = TRACKING_STATIONS
    /\ callStatus = "none"
    /\ tracking = NoResult
    /\ probe = NoProbe

SpecFar == InitFar /\ [][Next]_vars

\* the resolver on a table that holds no station
InitEmpty == InitSession({<<>>})

SpecEmpty == InitEmpty /\ [][Next]_vars

---------------------------------------------------------------------------
(* The local-time label on its own *)

InitLabel ==
    /\ app = AppBeforeMount(0)
    /\ now = 0
    /\ elapsed = 0
    /\ stations = TRACKING_STATIONS
    /\ callStatus = "none"
    /\ tracking = NoResult
    /\ probe \in [applied : {FALSE}, utcHours : 0..23,
                  utcMinutes : LabelMinutes, offset : LabelOffsets,
                  label : {""}]

ApplyLabel ==
    /\ ~probe.applied
    /\ probe' = [probe EXCEPT
                   !.applied = TRUE,
                   !.label = localTimeString(
                                 totalMinutes(probe.utcHours, probe.utcMinutes,
                                              probe.offset))]
    /\ UNCHANGED <<now, elapsed, stations, callStatus, tracking, app>>

NextLabel == ApplyLabel

SpecLabel == InitLabel /\ [][NextLabel]_vars

---------------------------------------------------------------------------
(* The east-to-west sort on its own *)

\* stations the sorted tables are made of: two of one offset, a fractional
\* offset between two whole ones, a negative offset
SortStations ==
    { TRACKING_STATIONS[7], TRACKING_STATIONS[14], TRACKING_STATIONS[15],
      TRACKING_STATIONS[16], TRACKING_STATIONS[17] }

\* every table of up to MaxTableLen different stations of SortStations, in
\* every order, and the compiled-in table
SortTables ==
    { table \in UNION { [1..n -> SortStations] : n \in 0..MaxTableLen } :
         \A i, j \in 1..Len(table) : table[i] = table[j] => i = j }
        \cup {TRACKING_STATIONS}

NoSort == [applied |-> FALSE, sorted |-> <<>>]

InitSort ==
    /\ app = AppBeforeMount(0)
    /\ now = 0
    /\ elapsed = 0
    /\ stations \in SortTables
    /\ callStatus = "none"
    /\ tracking = NoResult
    /\ probe = NoSort

ApplySort ==
    /\ ~probe.applied
    /\ probe' = [applied |-> TRUE, sorted |-> stationsByTimezone(stations)]
    /\ UNCHANGED <<now, elapsed, stations, callStatus, tracking, app>>

NextSort == ApplySort

SpecSort == InitSort /\ [][NextSort]_vars

---------------------------------------------------------------------------
(* generateIntelMessage on its own *)

\* the arguments the generator is applied to: the home base and two
\* stations, regions with a message set and one without, speeds in
\* ten-thousandths of Mach, delivered counts as [hi, lo]
IntelLocations == {"NORTH POLE", "LONDON", "RIO DE JANEIRO"}
IntelRegions == {"ARCTIC", "EUROPE", "S. AMERICA", "ANTARCTICA"}
IntelSpeeds == {41760, 42000, 42240}
IntelDelivered ==
    { [hi |-> 450, lo |-> 0], [hi |-> 455, lo |-> 1234560],
      [hi |-> 464, lo |-> 9999985] }

\* the values of Math.random(), in hundredths: every twentieth, and the
\* values next to each threshold
RandomDraws ==
    {5 * n : n \in 0..19} \cup {39, 40, 41, 49, 50, 51, 69, 70, 71, 84, 85, 86, 99}

InitIntel ==
    /\ app = AppBeforeMount(0)
    /\ now = 0
    /\ elapsed = 0
    /\ stations = TRACKING_STATIONS
    /\ callStatus = "none"
    /\ tracking = NoResult
    /\ probe \in [applied : {FALSE}, locationName : IntelLocations,
                  region : IntelRegions, speed : IntelSpeeds,
                  delivered : IntelDelivered, rand1 : {0}, rand2 : {0},
                  message : {""}]

Generate ==
    /\ ~probe.applied
    /\ \E rand1, rand2 \in RandomDraws :
          probe' = [probe EXCEPT
                      !.applied = TRUE,
                      !.rand1 = rand1,
                      !.rand2 = rand2,
                      !.message = generateIntelMessage(
                                      probe.locationName, probe.region,
                                      probe.speed, probe.delivered,
                                      rand1, rand2)]
    /\ UNCHANGED <<now, elapsed, stations, callStatus, tracking, app>>

NextIntel == Generate

SpecIntel == InitIntel /\ [][NextIntel]_vars

---------------------------------------------------------------------------
(* calculateGifts on its own: calls at increasing times *)

\* the clock at the first call: the epoch, midnight UTC of 25 December 2025
\* (1766620800000 ms), and 2 ms before a multiple of 10000000 ms
GiftsStartTimes ==
    { [hi |-> 0, lo |-> 0], [hi |-> 176662, lo |-> 800000],
      [hi |-> 176662, lo |-> 9999998] }

\* the milliseconds between two calls: a millisecond, the second of the
\* tracking loop, about half a cycle, a whole cycle
GiftsDeltas == {1, 1000, 4999999, 10000000}

InitGifts ==
    /\ app = AppBeforeMount(0)
    /\ now = 0
    /\ elapsed = 0
    /\ stations = TRACKING_STATIONS
    /\ callStatus = "none"
    /\ tracking = NoResult
    /\ probe \in [calls : {0}, ms : GiftsStartTimes, gifts : {GiftsBase},
                  msBefore : {[hi |-> 0, lo |-> 0]}, giftsBefore : {GiftsBase}]

\* the clock moves on by d milliseconds and calculateGifts is called
CallGifts(d) ==
    /\ probe.calls < MaxGiftCalls
    /\ probe' = [calls       |-> probe.calls + 1,
                 ms          |-> BigPlus(probe.ms, d),
                 gifts       |-> calculateGifts(BigPlus(probe.ms, d)),
                 msBefore    |-> probe.ms,
                 giftsBefore |-> probe.gifts]
    /\ UNCHANGED <<now, elapsed, stations, callStatus, tracking, app>>

NextGifts == \E d \in GiftsDeltas : CallGifts(d)

SpecGifts == InitGifts /\ [][NextGifts]_vars

---------------------------------------------------------------------------
(* The App: its timers fire in any order while the clock moves on *)

\* the clock when the App is constructed: a minute before the gate opens,
\* and a minute before the last station (MIDWAY) leaves 25 December, an
\* hour and a minute before the gate closes
AppStartTimes == { UTC(2025, 12, 24, 9, 59), UTC(2025, 12, 26, 10, 59) }

\* the minutes the clock moves on between two callbacks
AppDeltas == {1, 60}

\* the value of Math.random(), in hundredths: what a message says changes
\* nothing of what the App does with it
AppDraws == {30}

InitApp ==
    /\ now \in AppStartTimes
    /\ elapsed = 0
    /\ stations = TRACKING_STATIONS
    /\ callStatus = "none"
    /\ tracking = NoResult
    /\ probe = NoProbe
    /\ app = AppBeforeMount(now)

\* the first render is committed and every effect runs
Mount ==
    /\ ~app.mounted
    /\ \E rand1, rand2 \in AppDraws :
          app' = IntelEffect(
                     [app EXCEPT
                        !.mounted = TRUE,
                        !.trackingInterval = isChristmas(app.currentTime)],
                     now, rand1, rand2)
    /\ UNCHANGED <<now, elapsed, stations, callStatus, tracking, probe>>

\* the time ticker: setCurrentTime(new Date())
TimeTick ==
    /\ app.mounted
    /\ app.generated < MaxGenerated
    /\ \E rand1, rand2 \in AppDraws :
          app' = Rendered(app, [app EXCEPT !.currentTime = now], now,
                          rand1, rand2)
    /\ UNCHANGED <<now, elapsed, stations, callStatus, tracking, probe>>

\* the callback of the tracking interval
TrackingTick ==
    /\ app.mounted
    /\ app.trackingInterval
    /\ app.generated < MaxGenerated
    /\ ~Throws(stations)
    /\ \E trackingData \in {Resolved(stations, now)} :
          /\ tracking' = trackingData
          /\ \E draw, rand1, rand2 \in AppDraws :
                app' = Rendered(
                           app,
                           [app EXCEPT
                              !.santa = Tracked(app.santa, trackingData,
                                                now, draw),
                              !.plannedRoute = trackingData.plannedRoute],
                           now, rand1, rand2)
    /\ callStatus' = "returned"
    /\ UNCHANGED <<now, elapsed, stations, probe>>

\* the callback of the 6-second interval: addLog of the render it was set in
LogTick ==
    /\ app.mounted
    /\ app.logInterval.running
    /\ app.generated < MaxGenerated
    /\ \E rand1, rand2 \in AppDraws :
          app' = addLog(app, app.logInterval, now, rand1, rand2)
    /\ UNCHANGED <<now, elapsed, stations, callStatus, tracking, probe>>

\* time passes
Advance(d) ==
    /\ app.advances < MaxAdvances
    /\ now' = now + d
    /\ elapsed' = elapsed + d
    /\ app' = [app EXCEPT !.advances = app.advances + 1]
    /\ UNCHANGED <<stations, callStatus, tracking, probe>>

NextApp ==
    \/ Mount
    \/ TimeTick
    \/ TrackingTick
    \/ LogTick
    \/ \E d \in AppDeltas : Advance(d)

SpecApp == InitApp /\ [][NextApp]_vars

---------------------------------------------------------------------------
(* The gate isChristmas on its own *)

\* the values of currentTime the gate is computed for: every hour of 23 to
\* 27 December and of the same days of November and January, at the first
\* and the last minute of the hour and in between, in two years
GateYears == {2024, 2025}
GateMonths == {1, 11, 12}
GateDays == 23..27
GateMinutes == {0, 30, 59}

InitGate ==
    /\ app = AppBeforeMount(0)
    /\ now = 0
    /\ elapsed = 0
    /\ stations = TRACKING_STATIONS
    /\ callStatus = "none"
    /\ tracking = NoResult
    /\ probe \in [applied : {FALSE}, year : GateYears, month : GateMonths,
                  day : GateDays, hour : 0..23, minute : GateMinutes,
                  currentTime : {0}, isChristmas : {FALSE}]

\* a render with currentTime at the probe's date computes the gate
ApplyGate ==
    /\ ~probe.applied
    /\ \E t \in {UTC(probe.year, probe.month, probe.day,
                     probe.hour, probe.minute)} :
          probe' = [probe EXCEPT !.applied = TRUE,
                                 !.currentTime = t,
                                 !.isChristmas = isChristmas(t)]
    /\ UNCHANGED <<now, elapsed, stations, callStatus, tracking, app>>

NextGate == ApplyGate

SpecGate == InitGate /\ [][NextGate]_vars

---------------------------------------------------------------------------
(* What the properties read of a state *)

\* the last call returned a result, computed at time now
Returned == callStatus = "returned"

\* the east-to-west order of the table in use
Sorted == stationsByTimezone(stations)

\* the local month (0..11) and day of a station at time now
LocalDate(station) == DateOf(localTime(now, station))

\* the local minute of the day of a station at time now
LocalMinuteOfDay(station) == localTime(now, station) % 1440

\* the positions (1-based) of Sorted whose local date is 25 December
Candidates == {i \in 1..Len(Sorted) : OnChristmasDay(now, Sorted[i])}

\* position i of Sorted is on 25 December
IsCandidate(i) == OnChristmasDay(now, Sorted[i])

MinutesRemaining(i) == minutesUntilMidnight(now, Sorted[i])

\* a station of the table no other station lies east of
Easternmost(station) ==
    \A i \in 1..Len(stations) : stations[i].offset <= station.offset

HomeBase ==
    [name |-> "NORTH POLE", region |-> "ARCTIC", offset |-> 0,
     coordinates |-> <<900000, 0>>]

\* the coordinates of the stations at positions 1..n of Sorted
SortedCoordinates(n) == [i \in 1..n |-> Sorted[i].coordinates]

PreMissionState ==
    /\ tracking.location = HomeBase
    /\ tracking.visitedLocations = <<HomeBase.coordinates>>

PostMissionState ==
    /\ tracking.location = HomeBase
    /\ tracking.visitedLocations =
          <<HomeBase.coordinates>> \o SortedCoordinates(Len(Sorted))
              \o <<HomeBase.coordinates>>

---------------------------------------------------------------------------
(* C1: at every timestamp the current station is the station on 25         *)
(* December with the smallest minutes-remaining value, the lowest position *)
(* of the east-to-west order winning a tie; when no station is on 25       *)
(* December no station is picked (the location is the home base).          *)
C1_CurrentIsSoonestToEnd ==
    Returned =>
        IF Candidates = {}
        THEN tracking.location = HomeBase
        ELSE \E k \in Candidates :
                /\ tracking.location = Sorted[k]
                /\ \A j \in Candidates :
                      \/ MinutesRemaining(j) > MinutesRemaining(k)
                      \/ MinutesRemaining(j) = MinutesRemaining(k) /\ j >= k

\* a call at which two candidates tie on the smallest value and the first
\* of them is the location
C1_Witness ==
    /\ Returned
    /\ \E k, j \in Candidates :
          /\ j > k
          /\ tracking.location = Sorted[k]
          /\ MinutesRemaining(j) = MinutesRemaining(k)

(* C2: in the active-mission state with the current station at index k of  *)
(* the east-to-west order, visitedLocations is the home base followed by   *)
(* the stations at indices 0..k, in that order (length k + 2), and the     *)
(* returned location is the station at index k.                            *)
C2_ActiveVisitedIsPrefix ==
    LET k == CurrentStationIndex(Sorted, now) IN
    (Returned /\ ~christmasNotStarted(Sorted, now) /\ k >= 0) =>
        /\ tracking.location = Sorted[k + 1]
        /\ Len(tracking.visitedLocations) = k + 2
        /\ tracking.visitedLocations[1] = HomeBase.coordinates
        /\ \A i \in 0..k :
              tracking.visitedLocations[i + 2] = Sorted[i + 1].coordinates

\* an active state some way into the mission
C2_Witness ==
    /\ Returned
    /\ tracking.location.name = "TEHRAN"
    /\ Len(tracking.visitedLocations) > 10

(* C3: at every timestamp at which the easternmost station's local date is *)
(* in December before the 25th, the result is the pre-mission state: the   *)
(* location is the home base (NORTH POLE, offset 0, coordinates [90, 0])   *)
(* and visitedLocations is the home base alone.                            *)
C3_PreMissionBeforeThe25th ==
    (/\ Returned
     /\ \E i \in 1..Len(stations) :
           /\ Easternmost(stations[i])
           /\ LocalDate(stations[i]).month = 11
           /\ LocalDate(stations[i]).date < 25)
        => PreMissionState

\* a call made while the easternmost station is on 24 December
C3_Witness ==
    /\ Returned
    /\ \E i \in 1..Len(stations) :
          /\ Easternmost(stations[i])
          /\ LocalDate(stations[i]) = [month |-> 11, date |-> 24]
    /\ PreMissionState

(* C4: the result is the post-mission state (location the home base,       *)
(* visitedLocations the home base, every station east to west, the home    *)
(* base) when no station's local date is 25 December and the easternmost   *)
(* station's local date is past day 25; in particular whenever every       *)
(* station's local date is 26 December.                                    *)
C4_PostMissionAfterThe25th ==
    /\ (/\ Returned
        /\ Candidates = {}
        /\ \E i \in 1..Len(stations) :
              /\ Easternmost(stations[i])
              /\ LocalDate(stations[i]).date > 25)
          => PostMissionState
    /\ (/\ Returned
        /\ \A i \in 1..Len(stations) :
              LocalDate(stations[i]) = [month |-> 11, date |-> 26])
          => PostMissionState

\* a call at which every one of several stations is on 26 December
C4_Witness ==
    /\ Returned
    /\ Len(stations) > 1
    /\ \A i \in 1..Len(stations) :
          LocalDate(stations[i]) = [month |-> 11, date |-> 26]
    /\ PostMissionState

\* a station's local time is exactly 00:00 on 26 December
AtMidnightAfter(station) ==
    /\ LocalDate(station) = [month |-> 11, date |-> 26]
    /\ LocalMinuteOfDay(station) = 0

\* a station's local time is 23:59 on 25 December
AtLastMinute(station) ==
    /\ LocalDate(station) = [month |-> 11, date |-> 25]
    /\ LocalMinuteOfDay(station) = 1439

\* C5 as the spec states it: a station at exactly 00:00 on 26 December is
\* still a candidate, with a minutes-remaining value of 1
C5_Original ==
    Returned =>
        \A i \in 1..Len(Sorted) :
            AtMidnightAfter(Sorted[i]) =>
                IsCandidate(i) /\ MinutesRemaining(i) = 1

(* C5, amended: a station whose local time is exactly 00:00 on 26 December *)
(* is no longer a candidate and is not the current station; the last       *)
(* minute it is a candidate is 23:59 on 25 December, with a                *)
(* minutes-remaining value of 2; every candidate's value is between 2 and  *)
(* 1441, never 1, 0 or less.                                               *)
C5_CandidateUntilLastMinute ==
    Returned =>
        \A i \in 1..Len(Sorted) :
            /\ AtMidnightAfter(Sorted[i]) =>
                  ~IsCandidate(i) /\ tracking.location # Sorted[i]
            /\ AtLastMinute(Sorted[i]) =>
                  IsCandidate(i) /\ MinutesRemaining(i) = 2
            /\ IsCandidate(i) => MinutesRemaining(i) \in 2..1441

\* a call at the instant the current station of a minute before reaches
\* 00:00 on 26 December
C5_Witness ==
    /\ Returned
    /\ \E i \in 1..Len(Sorted) :
          /\ AtMidnightAfter(Sorted[i])
          /\ ~IsCandidate(i)
          /\ CurrentStationIndex(Sorted, now - 1) = i - 1
          /\ tracking.location # Sorted[i]

\* C6 as the spec states it: from one call to the next, at increasing
\* timestamps, the length of visitedLocations never decreases
C6_VisitedNeverShrinks ==
    [][(Returned /\ callStatus' = "returned") =>
          Len(tracking'.visitedLocations) >= Len(tracking.visitedLocations)]_vars

(* C7: at every timestamp and in every mission phase plannedRoute is the   *)
(* home base, every station in east-to-west order, the home base: its      *)
(* first and last elements are the home-base coordinates and its length is *)
(* stationCount + 2.                                                       *)
C7_PlannedRouteIsClosedLoop ==
    Returned =>
        /\ Len(tracking.plannedRoute) = Len(stations) + 2
        /\ tracking.plannedRoute[1] = HomeBase.coordinates
        /\ tracking.plannedRoute[Len(tracking.plannedRoute)] =
              HomeBase.coordinates
        /\ \A i \in 1..Len(Sorted) :
              tracking.plannedRoute[i + 1] = Sorted[i].coordinates

\* a call in the active state, part of the route flown
C7_Witness ==
    /\ Returned
    /\ tracking.location.name = "LONDON"
    /\ Len(tracking.visitedLocations) < Len(tracking.plannedRoute)
    /\ Len(tracking.plannedRoute) = 31

\* a number of 0..99 as two digits
TwoDigits(n) == IF n < 10 THEN "0" \o ToString(n) ELSE ToString(n)

\* the label of a minute of the day (0..1439)
Label(minuteOfDay) ==
    TwoDigits(minuteOfDay \div 60) \o ":" \o TwoDigits(minuteOfDay % 60)

\* C8 as the spec states it: localTime is HH:MM, the UTC time of day plus the
\* location's offset normalised into [0, 1440) minutes
C8_LocalTimeNormalised ==
    Returned =>
        tracking.localTime =
            Label((getUTCHours(now) * 60 + getUTCMinutes(now)
                       + tracking.location.offset) % 1440)

(* C9: the local-time label of UTC 00:00 and an offset of -5 hours is      *)
(* "19:00"; for a UTC time with minutes 0 and a whole-hour offset o it is  *)
(* the zero-padded hour (UTC hour + o) mod 24 followed by ":00".           *)
C9_WholeHourLabel ==
    /\ (/\ probe.applied
        /\ probe.utcHours = 0 /\ probe.utcMinutes = 0
        /\ probe.offset = -300)
          => probe.label = "19:00"
    /\ (/\ probe.applied
        /\ probe.utcMinutes = 0
        /\ probe.offset % 60 = 0)
          => probe.label =
                TwoDigits((probe.utcHours + probe.offset \div 60) % 24)
                    \o ":00"

\* the label of UTC 00:00 at -5 hours has been computed
C9_Witness ==
    /\ probe.applied
    /\ probe.utcHours = 0 /\ probe.utcMinutes = 0
    /\ probe.offset = -300
    /\ probe.label = "19:00"

\* a station's local date is in December, after the 25th
PastThe25th(station) ==
    LocalDate(station).month = 11 /\ LocalDate(station).date > 25

PastOrCurrent(station) ==
    PastThe25th(station) \/ station = tracking.location

\* every station's local date is in December
AllInDecember ==
    \A i \in 1..Len(stations) : LocalDate(stations[i]).month = 11

\* the home base, then the coordinates of a sequence of stations
HomeThen(seq) ==
    <<HomeBase.coordinates>> \o [i \in 1..Len(seq) |-> seq[i].coordinates]

TablePosition(station) == CHOOSE i \in 1..Len(stations) : stations[i] = station

\* the position of the station of that name in the sorted table
SortedPosition(name) ==
    CHOOSE i \in 1..Len(probe.sorted) : probe.sorted[i].name = name

(* C11: the order the resolver traverses is the station table sorted by     *)
(* offset descending: it holds the stations of the table, for any two       *)
(* positions i < j the offset at i is at least the offset at j, and         *)
(* stations of equal offset keep their order of the table (MOSCOW before    *)
(* NAIROBI, MUMBAI before NEW DELHI, BANGKOK before JAKARTA); TEHRAN        *)
(* (3.5 hours) comes after DUBAI (4) and before MOSCOW (3).                 *)
C11_SortedEastToWestStable ==
    probe.applied =>
        /\ Len(probe.sorted) = Len(stations)
        /\ \A i \in 1..Len(stations) :
              \E j \in 1..Len(probe.sorted) : probe.sorted[j] = stations[i]
        /\ \A i, j \in 1..Len(probe.sorted) :
              i < j =>
                /\ probe.sorted[i].offset >= probe.sorted[j].offset
                /\ probe.sorted[i].offset = probe.sorted[j].offset =>
                      TablePosition(probe.sorted[i])
                          < TablePosition(probe.sorted[j])
        /\ stations = TRACKING_STATIONS =>
              /\ SortedPosition("MOSCOW") < SortedPosition("NAIROBI")
              /\ SortedPosition("MUMBAI") < SortedPosition("NEW DELHI")
              /\ SortedPosition("BANGKOK") < SortedPosition("JAKARTA")
              /\ SortedPosition("DUBAI") < SortedPosition("TEHRAN")
              /\ SortedPosition("TEHRAN") < SortedPosition("MOSCOW")

\* the compiled-in table has been sorted: TEHRAN, listed after DUBAI, MOSCOW
\* and NAIROBI, has moved between DUBAI and MOSCOW, and NAIROBI still
\* follows MOSCOW
C11_Witness ==
    /\ probe.applied
    /\ stations = TRACKING_STATIONS
    /\ stations[17].name = "TEHRAN"
    /\ SortedPosition("TEHRAN") = SortedPosition("DUBAI") + 1
    /\ SortedPosition("MOSCOW") = SortedPosition("TEHRAN") + 1
    /\ SortedPosition("NAIROBI") = SortedPosition("MOSCOW") + 1

\* the only station of a one-station table of offset 0 is at 23:30 on 25
\* December
AloneAtHalfPastEleven ==
    /\ Len(stations) = 1
    /\ stations[1].offset = 0
    /\ LocalDate(stations[1]) = [month |-> 11, date |-> 25]
    /\ LocalMinuteOfDay(stations[1]) = 23 * 60 + 30

(* C12: with a table of a single station of offset 0, at a timestamp at     *)
(* which its local time is 23:30 on 25 December, the current station is    *)
(* that station, its minutes-remaining value is 31 and visitedLocations is *)
(* the home base followed by that station.                                 *)
C12_SingleStationAtHalfPastEleven ==
    (Returned /\ AloneAtHalfPastEleven) =>
        /\ tracking.location = stations[1]
        /\ CurrentStationIndex(Sorted, now) = 0
        /\ MinutesRemaining(1) = 31
        /\ tracking.visitedLocations =
              <<HomeBase.coordinates, stations[1].coordinates>>

\* the call at 23:30 UTC on 25 December on the table holding LONDON alone
C12_Witness ==
    /\ Returned
    /\ AloneAtHalfPastEleven
    /\ tracking.location.name = "LONDON"
    /\ Len(tracking.visitedLocations) = 2

\* C13 as the spec states it: on an empty station table the resolver does
\* not fail; every call returns the pre-mission state, the location the
\* home base and visitedLocations the home base alone
C13_EmptyTableGivesPreMission ==
    (Len(stations) = 0 /\ callStatus # "none") =>
        /\ Returned
        /\ PreMissionState

\* no station's local date is 25 December
NoStationOnThe25th ==
    \A i \in 1..Len(stations) :
        LocalDate(stations[i]) # [month |-> 11, date |-> 25]

(* C14: at every timestamp, dates far before and far after December 2025   *)
(* included, a call returns a result and raises no error, and whenever no   *)
(* station's local date is 25 December the result is the pre-mission or    *)
(* the post-mission state, the location being the home base.               *)
C14_NoFailureFarFromDecember ==
    callStatus # "none" =>
        /\ Returned
        /\ NoStationOnThe25th => (PreMissionState \/ PostMissionState)

\* a call on 25 July of the year 1: the day is a 25th, the month is not
\* December, and the result is the post-mission state
C14_Witness ==
    /\ Returned
    /\ now < UTC(2, 1, 1, 0, 0)
    /\ LocalDate(stations[1]) = [month |-> 6, date |-> 25]
    /\ NoStationOnThe25th
    /\ PostMissionState

\* the elements of a sequence
ToSet(seq) == {seq[i] : i \in 1..Len(seq)}

\* s holds part somewhere, at its start
Contains(s, part) ==
    \E i \in 1..(Len(s) - Len(part) + 1) :
        SubSeq(s, i, i + Len(part) - 1) = part

StartsWith(s, part) ==
    Len(s) >= Len(part) /\ SubSeq(s, 1, Len(part)) = part

\* the generator has been applied to a location that is not the home base
GeneratedAway == probe.applied /\ probe.locationName # "NORTH POLE"

\* the six standby messages
StandbySet ==
    { "MISSION STATUS: STANDBY / DEBRIEF",
      "ELVES LOADING FINAL PAYLOAD MANIFEST",
      "PRE-FLIGHT DIAGNOSTICS: ALL GREEN",
      "AWAITING LAUNCH WINDOW // UTC 10:00",
      "MAINTENANCE CREWS ATTENDING RED SLED",
      "REINDEER FEEDING IN PROGRESS" }

(* C15: when locationName is 'NORTH POLE' the message is one of the six     *)
(* standby messages, whatever the region, the speed, the delivered count   *)
(* and the random draws.                                                   *)
C15_HomeBaseGivesStandby ==
    (probe.applied /\ probe.locationName = "NORTH POLE") =>
        probe.message \in StandbySet

\* a standby message for the home base, the region not being the home
\* base's and the draw being one that would give a generic message elsewhere
C15_Witness ==
    /\ probe.applied
    /\ probe.locationName = "NORTH POLE"
    /\ probe.region = "EUROPE"
    /\ probe.rand1 = 99
    /\ probe.message = "REINDEER FEEDING IN PROGRESS"

\* the kinds of message
IsActionMessage ==
    \E i \in 1..Len(ACTION_LOGS) :
        probe.message = Replace(ACTION_LOGS[i], "%LOC%", probe.locationName)

IsRegionMessage ==
    /\ probe.region \in DOMAIN REGION_LOGS
    /\ probe.message \in ToSet(REGION_LOGS[probe.region])

IsStatusMessage ==
    \/ StartsWith(probe.message, "CURRENT VELOCITY: MACH ")
    \/ StartsWith(probe.message, "PAYLOAD UPDATE: ")

IsGenericMessage == probe.message \in ToSet(GENERIC_LOGS)

(* C16: for a location other than the home base and a region that has a    *)
(* message set, the first draw r decides the kind of message: r < 0.40 an  *)
(* action message, 0.40 <= r < 0.70 a message of the region's set,         *)
(* 0.70 <= r < 0.85 a speed or delivered-count status message, r >= 0.85 a *)
(* generic message, and no other kind; 0.40, 0.70 and 0.85 belong to the   *)
(* upper band.                                                             *)
C16_BandDecidesKind ==
    (GeneratedAway /\ probe.region \in DOMAIN REGION_LOGS) =>
        /\ IsActionMessage <=> probe.rand1 < 40
        /\ IsRegionMessage <=> probe.rand1 \in 40..69
        /\ IsStatusMessage <=> probe.rand1 \in 70..84
        /\ IsGenericMessage <=> probe.rand1 >= 85

\* a draw of exactly 0.70 for a region with a set: a status message
C16_Witness ==
    /\ GeneratedAway
    /\ probe.region = "EUROPE"
    /\ probe.rand1 = 70
    /\ IsStatusMessage
    /\ ~IsRegionMessage

\* C17 as the spec states it: for a region without a message set and a draw
\* in the region band (0.40 <= r < 0.70) the message is one of the generic
\* fallback set, not a status message
C17_UnknownRegionGivesGeneric ==
    (/\ GeneratedAway
     /\ probe.region \notin DOMAIN REGION_LOGS
     /\ probe.rand1 \in 40..69)
        => IsGenericMessage /\ ~IsStatusMessage

\* C18 as the spec states it: for a draw r < 0.40 and a location other than
\* the home base the message holds locationName and no placeholder, whichever
\* action template was drawn
C18_ActionNamesLocation ==
    (GeneratedAway /\ probe.rand1 < 40) =>
        /\ Contains(probe.message, probe.locationName)
        /\ ~Contains(probe.message, "%LOC%")

\* by how much a delivered count exceeds 4,500,000,000
AboveBase(count) == (count.hi - 450) * 10000000 + count.lo

\* the last two calls of calculateGifts were d milliseconds apart
Apart(d) ==
    /\ probe.calls > 1
    /\ (probe.ms.hi - probe.msBefore.hi) * 10000000
           + probe.ms.lo - probe.msBefore.lo = d

Generated(i) == app.logs[i].priority = "MED"

(* C20: in every state the App can reach by log appends, gate changes and   *)
(* location changes the log buffer holds at most 5 entries, newest first:  *)
(* the entry generated last is at index 0, every generated entry is in     *)
(* front of the entries generated before it, and the error entries of the  *)
(* last time the gate was false are behind every generated entry.          *)
C20_LogBufferBoundedNewestFirst ==
    /\ Len(app.logs) <= 5
    /\ (Len(app.logs) > 0 /\ Generated(1)) =>
          app.logs[1].id[2] = app.generated
    /\ \A i, j \in 1..Len(app.logs) :
          i < j =>
            /\ app.logs[i].timestamp >= app.logs[j].timestamp
            /\ Generated(j) => Generated(i)
            /\ (Generated(i) /\ Generated(j)) =>
                  app.logs[i].id[2] > app.logs[j].id[2]

\* six entries have been generated since the buffer was last reset: the
\* buffer holds the last five, the sixth in front, and the first is gone
C20_Witness ==
    /\ Len(app.logs) = 5
    /\ app.generated = 6
    /\ Generated(5)
    /\ app.logs[1].id[2] = 6
    /\ app.logs[5].id[2] = 2

\* the position of the station of that name in the east-to-west order
PositionOf(name) ==
    CHOOSE i \in 1..Len(Sorted) : Sorted[i].name = name

\* the station that follows a station westward: the first one after it in
\* the east-to-west order whose offset is strictly smaller, the home base
\* when there is none
NextWestward(station) ==
    LET west == {i \in 1..Len(Sorted) : Sorted[i].offset < station.offset}
    IN  IF west = {} THEN HomeBase
        ELSE Sorted[CHOOSE i \in west : \A j \in west : i <= j]

\* a minute later the station's local time is 00:00 on 26 December
LeavesThe25th(station) ==
    /\ DateOf(localTime(now + 1, station)) = [month |-> 11, date |-> 26]
    /\ localTime(now + 1, station) % 1440 = 0

(* C21: from one minute to the next, while the current location is a       *)
(* station, the location stays that station unless the station's local     *)
(* time has just reached 00:00 on 26 December; at that minute, and at no   *)
(* other, the location becomes the next station westward with a strictly   *)
(* smaller offset, or the home base when no such station remains.          *)
C21_HandOverAtLocalMidnight ==
    [][(/\ Returned
        /\ callStatus' = "returned"
        /\ now' = now + 1
        /\ tracking.location # HomeBase)
          => IF LeavesThe25th(tracking.location)
             THEN tracking'.location = NextWestward(tracking.location)
             ELSE tracking'.location = tracking.location]_vars

\* the call at the minute MOSCOW reaches 00:00 on 26 December, a minute
\* after a call that found MOSCOW current: NAIROBI, of the same offset, is
\* passed over and CAIRO is current
C21_Witness ==
    /\ Returned
    /\ tracking.location.name = "CAIRO"
    /\ CurrentStationIndex(Sorted, now - 1) + 1 = PositionOf("MOSCOW")
    /\ LocalDate(Sorted[PositionOf("MOSCOW")])
          = [month |-> 11, date |-> 26]
    /\ LocalMinuteOfDay(Sorted[PositionOf("MOSCOW")]) = 0

\* 25 December is the local date at some whole-hour offset of -12 to +14
ChristmasSomewhere(t) ==
    \E o \in -12..14 : DateOf(t + 60 * o) = [month |-> 11, date |-> 25]

(* C22: the gate isChristmas is true exactly when the UTC time is in        *)
(* [24 December 10:00, 26 December 12:00), which is exactly when 25        *)
(* December is the local date at some whole-hour UTC offset between -12    *)
(* and +14; at every other UTC time it is false.                           *)
C22_GateIsTheChristmasWindow ==
    probe.applied =>
        /\ probe.isChristmas <=>
              /\ probe.currentTime >= UTC(probe.year, 12, 24, 10, 0)
              /\ probe.currentTime < UTC(probe.year, 12, 26, 12, 0)
        /\ probe.isChristmas <=> ChristmasSomewhere(probe.currentTime)

\* the gate computed at 11:59 on 26 December, the last minute it is true
C22_Witness ==
    /\ probe.applied
    /\ probe.month = 12 /\ probe.day = 26
    /\ probe.hour = 11 /\ probe.minute = 59
    /\ probe.isChristmas
    /\ ~ChristmasSomewhere(probe.currentTime + 1)

\* the gate of the render of the App's state, before and after a step
Gate == isChristmas(app.currentTime)
GateAfter == isChristmas(app'.currentTime)

NewEntryInFront ==
    /\ app'.generated = app.generated + 1
    /\ Len(app'.logs) > 0
    /\ app'.logs[1].priority = "MED"
    /\ app'.logs[1].id = <<now, app'.generated>>
    /\ app'.logs[1].timestamp = now

\* a message names the location it was generated for: the home base by a
\* standby message, a station (at the draw of AppDraws an action template
\* with the placeholder) by its name
MessageFor(message, locationName) ==
    IF locationName = "NORTH POLE"
    THEN message \in StandbySet
    ELSE Contains(message, locationName)

\* the buffer after a step is the buffer before it behind one more entry,
\* cut to five
OneInFront ==
    /\ Len(app'.logs) = (IF Len(app.logs) < 5 THEN Len(app.logs) + 1 ELSE 5)
    /\ \A i \in 2..Len(app'.logs) : app'.logs[i] = app.logs[i - 1]

(* C24: while the gate is true, every change of santa.locationName or       *)
(* santa.currentRegion puts one new log entry, generated for the new        *)
(* location, in front of the buffer in the same step, and replaces the      *)
(* 6-second log timer by one that closes over the new location.             *)
C24_LocationChangeLogsAtOnce ==
    [][(/\ app.mounted
        /\ Gate
        /\ GateAfter
        /\ \/ app'.santa.locationName # app.santa.locationName
           \/ app'.santa.currentRegion # app.santa.currentRegion)
          => /\ NewEntryInFront
             /\ OneInFront
             /\ MessageFor(app'.logs[1].message, app'.santa.locationName)
             /\ app'.logInterval = Closure(app'.santa)
             /\ app'.logInterval # app.logInterval]_vars

\* the tracking callback has moved santa from the home base to MIDWAY at
\* the clock reading of the mount: the entry for MIDWAY is in front of the
\* standby entry of the mount, and the log timer closes over MIDWAY
C24_Witness ==
    /\ app.mounted
    /\ Gate
    /\ app.generated = 2
    /\ Len(app.logs) = 2
    /\ Contains(app.logs[1].message, "MIDWAY")
    /\ app.logs[2].message \in StandbySet
    /\ app.logs[1].timestamp = app.logs[2].timestamp
    /\ app.logInterval.running
    /\ app.logInterval.locationName = "MIDWAY"

\* the buffer is the three error entries
ErrorsOnly(logs) ==
    /\ Len(logs) = 3
    /\ \A i \in 1..3 : logs[i].priority = "HIGH"
    /\ logs[1].id = "error-1"
    /\ logs[2].id = "error-2"
    /\ logs[3].id = "error-3"

(* C29: while the gate is false the log buffer is exactly the three error   *)
(* entries error-1, error-2, error-3 of priority HIGH; when the gate turns  *)
(* from false to true the buffer is not cleared: the first generated entry  *)
(* goes in front of the three error entries, and while the gate stays true  *)
(* a step leaves the buffer alone or puts one entry in front, so that an    *)
(* error entry stays until it is pushed past the fifth position.            *)
C29_ErrorEntriesStayBehind ==
    [][/\ (app'.mounted /\ ~GateAfter) => ErrorsOnly(app'.logs)
       /\ (app.mounted /\ ~Gate /\ GateAfter)
             => /\ NewEntryInFront
                /\ app'.logs = <<app'.logs[1]>> \o app.logs
                /\ ErrorsOnly(SubSeq(app'.logs, 2, 4))
       /\ (app.mounted /\ Gate /\ GateAfter)
             => \/ app'.logs = app.logs
                \/ NewEntryInFront /\ OneInFront]_vars

\* the gate has opened on the error entries and three entries have been
\* generated since: error-1 and error-2 are left at the fourth and fifth
\* positions, error-3 has been pushed out
C29_Witness ==
    /\ app.mounted
    /\ Gate
    /\ app.generated = 3
    /\ Len(app.logs) = 5
    /\ Generated(1) /\ Generated(2) /\ Generated(3)
    /\ app.logs[4].priority = "HIGH" /\ app.logs[4].id = "error-1"
    /\ app.logs[5].priority = "HIGH" /\ app.logs[5].id = "error-2"

(* C25: in every result of getSantaLocation visitedLocations is not empty,  *)
(* its first element is the home-base coordinates and its last element is   *)
(* the coordinates of the returned location (the current station in the     *)
(* active state, the home base before and after the mission).               *)
C25_VisitedRunsFromHomeToLocation ==
    Returned =>
        /\ Len(tracking.visitedLocations) > 0
        /\ tracking.visitedLocations[1] = HomeBase.coordinates
        /\ tracking.visitedLocations[Len(tracking.visitedLocations)]
              = tracking.location.coordinates

\* an active state in which several stations have been visited: the path
\* ends at the current station, not at the home base
C25_Witness ==
    /\ Returned
    /\ tracking.location # HomeBase
    /\ Len(tracking.visitedLocations) > 3
    /\ tracking.visitedLocations[Len(tracking.visitedLocations)]
          = tracking.location.coordinates
    /\ tracking.visitedLocations[Len(tracking.visitedLocations)]
          # HomeBase.coordinates

(* C26: at every timestamp the pre-mission condition (the local date of the *)
(* easternmost station is in December, before the 25th) and the existence   *)
(* of a station whose local date is 25 December do not hold together: the   *)
(* pre-mission branch, tested first, never hides a current station.         *)
C26_PreMissionHidesNoStation ==
    Returned =>
        /\ ~(christmasNotStarted(Sorted, now) /\ Candidates # {})
        /\ ~(christmasNotStarted(Sorted, now)
                /\ CurrentStationIndex(Sorted, now) >= 0)

\* the last minute of the pre-mission condition: the easternmost station is
\* at 23:59 on 24 December, no station is on the 25th, and the result is the
\* pre-mission state
C26_Witness ==
    /\ Returned
    /\ christmasNotStarted(Sorted, now)
    /\ LocalDate(Sorted[1]) = [month |-> 11, date |-> 24]
    /\ LocalMinuteOfDay(Sorted[1]) = 1439
    /\ Candidates = {}
    /\ PreMissionState

\* the stations of the compiled-in table that share their offset with a
\* station earlier in the table
TiedLater ==
    { TRACKING_STATIONS[i] : i \in
        { j \in 1..Len(TRACKING_STATIONS) :
            \E k \in 1..(j - 1) :
                TRACKING_STATIONS[k].offset = TRACKING_STATIONS[j].offset } }

\* the coordinates of a station are among the visited ones
Visited(station) == station.coordinates \in ToSet(tracking.visitedLocations)

\* the returned location is a station of strictly smaller offset
CurrentIsWestOf(station) ==
    /\ tracking.location # HomeBase
    /\ tracking.location.offset < station.offset

\* C27 as stated: from one result to the next, the coordinates of a tied
\* station enter visitedLocations only when the new result's current
\* station has a strictly smaller offset
C27_Original ==
    [][(Returned /\ callStatus' = "returned") =>
          /\ tracking'.location \notin TiedLater
          /\ \A station \in TiedLater :
                (/\ station.coordinates
                       \notin ToSet(tracking.visitedLocations)
                 /\ station.coordinates
                       \in ToSet(tracking'.visitedLocations))
                   => /\ tracking'.location # HomeBase
                      /\ tracking'.location.offset < station.offset]_vars

(* C27 (amended): with the compiled-in table NAIROBI, NEW DELHI and JAKARTA *)
(* are never the returned location, and the coordinates of one of them are  *)
(* among visitedLocations only in a result whose current station has a      *)
(* strictly smaller offset, or in the mission-complete result (home base,   *)
(* every station visited).                                                  *)
C27_TiedStationsAreSkipped ==
    Returned =>
        /\ TiedLater = { Sorted[PositionOf("NAIROBI")],
                         Sorted[PositionOf("NEW DELHI")],
                         Sorted[PositionOf("JAKARTA")] }
        /\ tracking.location \notin TiedLater
        /\ \A station \in TiedLater :
              Visited(station) =>
                  \/ CurrentIsWestOf(station)
                  \/ PostMissionState

\* TEHRAN (3.5) is current: NEW DELHI (5.5) and JAKARTA (7) are visited,
\* NAIROBI (3) is not yet
C27_Witness ==
    /\ Returned
    /\ tracking.location.name = "TEHRAN"
    /\ Visited(Sorted[PositionOf("JAKARTA")])
    /\ Visited(Sorted[PositionOf("NEW DELHI")])
    /\ ~Visited(Sorted[PositionOf("NAIROBI")])

\* the result is an active-mission state: a station on 25 December, the
\* path from the home base to it
ActiveMissionState ==
    /\ tracking.location # HomeBase
    /\ OnChristmasDay(now, tracking.location)
    /\ tracking.visitedLocations
          = <<HomeBase.coordinates>>
              \o SortedCoordinates(CurrentStationIndex(Sorted, now) + 1)

(* C28: with the compiled-in table, whenever the App's gate isChristmas is  *)
(* true the resolver does not return the pre-mission state: it returns an   *)
(* active-mission state for UTC in [24 December 10:00, 26 December 11:00)   *)
(* and the post-mission state for UTC in [26 December 11:00, 12:00).        *)
C28_GateNeverSeesPreMission ==
    (Returned /\ isChristmas(now)) =>
        /\ ~PreMissionState
        /\ ~christmasNotStarted(Sorted, now)
        /\ now < UTC(2025, 12, 26, 11, 0) => ActiveMissionState
        /\ now >= UTC(2025, 12, 26, 11, 0) => PostMissionState

\* half past eleven UTC on 26 December: the gate is still true and the
\* mission is complete
C28_Witness ==
    /\ Returned
    /\ isChristmas(now)
    /\ now = UTC(2025, 12, 26, 11, 30)
    /\ PostMissionState

===========================================================================
